---- MODULE Spec2Model ----
(***************************************************************************)
(* Model of the rustic_io datatypes: the Position bit-packed codec         *)
(* (datatypes/position.rs) and the VarInt / VarLong variable-length codec  *)
(* (datatypes/var.rs).                                                     *)
(*                                                                         *)
(* Machine words are held as the set of their set bit positions: the u64   *)
(* value 5 is {0, 2}.  Bitwise and/or are intersection/union, a shift      *)
(* moves the positions and drops those that leave the word, and a cast     *)
(* truncates or sign-extends the set.  i32 values that the program handles *)
(* arithmetically (the Position fields) are integers, converted with       *)
(* I32Bits / I32Val.  Bytes in buffers are integers 0..255.                *)
(***************************************************************************)
EXTENDS Integers, Sequences, FiniteSets

VARIABLES pPc, pPos, pWord, pDec, pWord2,
          vPc, vKind, vVal, vCap, vEnc, vSrc, vDec, vEnc2

vars == <<pPc, pPos, pWord, pDec, pWord2,
          vPc, vKind, vVal, vCap, vEnc, vSrc, vDec, vEnc2>>

posVars == <<pPc, pPos, pWord, pDec, pWord2>>
varVars == <<vPc, vKind, vVal, vCap, vEnc, vSrc, vDec, vEnc2>>

(***************************************************************************)
(* Bounds of the explored inputs.                                          *)
(***************************************************************************)
Delta == 1
MaxCap == 11
MaxCont == 11

(***************************************************************************)
(* Word arithmetic.                                                        *)
(***************************************************************************)
MaxI32 == 2147483647
MinI32 == (-2147483647) - 1

Word(W) == 0 .. (W - 1)

\* bit pattern of a non-negative integer below 2^31
Bits(n) == {i \in 0..30 : (n \div (2^i)) % 2 = 1}

RECURSIVE Val(_)
\* value of a bit pattern within 0..30
Val(S) == IF S = {} THEN 0
          ELSE LET i == CHOOSE j \in S : TRUE IN 2^i + Val(S \ {i})

\* two's-complement pattern of an i32
I32Bits(v) == IF v < 0 THEN Bits((v + MaxI32) + 1) \cup {31} ELSE Bits(v)

\* the i32 a 32-bit pattern stands for
I32Val(S) == IF 31 \in S THEN Val(S \ {31}) + MinI32 ELSE Val(S)

And(a, b) == a \cap b
Or(a, b) == a \cup b
Not(W, a) == Word(W) \ a
\* `<<` on a W-bit integer with a shift amount below W: the bits that
\* leave the word are lost, nothing is raised
Shl(W, a, k) == {i + k : i \in a} \cap Word(W)
\* `>>` on an unsigned integer
Shr(a, k) == {i - k : i \in {j \in a : j >= k}}
\* `as u64` of an i32: sign extension
I32AsU64(a) == IF 31 \in a THEN a \cup (32..63) ELSE a
\* `as i32` of a u64, `as u8` of a wider unsigned: truncation
AsI32(a) == a \cap Word(32)
AsU8(a) == a \cap Word(8)

(***************************************************************************)
(* datatypes/position.rs                                                   *)
(***************************************************************************)
Position(x, y, z) == [x |-> x, y |-> y, z |-> z]

\* the variant that takes half the midpoint as the threshold
from_u64_half(val) ==
  LET x == I32Val(AsI32(Shr(val, 38)))
      y == I32Val(AsI32(And(val, Bits(4095))))
      z == I32Val(AsI32(And(Shr(val, 12), Bits(67108863))))
  IN Position(IF x >= 2^(25 - 1) THEN x - 2 * 2^(26 - 1) ELSE x,
              IF y >= 2^(11 - 1) THEN y - 2 * 2^(12 - 1) ELSE y,
              IF z >= 2^(25 - 1) THEN z - 2 * 2^(26 - 1) ELSE z)

\* `2 << 25-1` is 2 << (25 - 1): the subtraction binds tighter
from_u64(val) ==
  LET x == I32Val(AsI32(Shr(val, 38)))
      y == I32Val(AsI32(And(val, Bits(4095))))
      z == I32Val(AsI32(And(Shr(val, 12), Bits(67108863))))
  IN Position(IF x >= 2 * 2^(25 - 1) THEN x - 2 * 2^(26 - 1) ELSE x,
              IF y >= 2 * 2^(11 - 1) THEN y - 2 * 2^(12 - 1) ELSE y,
              IF z >= 2 * 2^(25 - 1) THEN z - 2 * 2^(26 - 1) ELSE z)

\* `(z & 0x3FFFFFF) << 12 as u64` shifts the i32 by (12 as u64), so the
\* shift is a 32-bit one and the cast to u64 that follows sign-extends
to_u64(p) ==
  LET x == I32Bits(p.x)
      y == I32Bits(p.y)
      z == I32Bits(p.z)
  IN Or(Or(Shl(64, I32AsU64(And(x, Bits(67108863))), 38),
           I32AsU64(Shl(32, And(z, Bits(67108863)), 12))),
        I32AsU64(And(y, Bits(4095))))

(***************************************************************************)
(* datatypes/var.rs                                                        *)
(*                                                                         *)
(* A VarInt / VarLong value is held as its 32 / 64 bit two's-complement    *)
(* pattern, the form try_into_ctx works on after to_ne_bytes /             *)
(* from_ne_bytes and try_from_ctx accumulates bit by bit.                  *)
(***************************************************************************)
SEGMENT_BITS == 127
CONTINUE_BIT == 128

Width(kind) == IF kind = "VarInt" THEN 32 ELSE 64

\* the variant that reads zero past the end
gread_u8_zero_fill(src, offset) ==
  IF offset >= Len(src)
    THEN [ok |-> TRUE, err |-> "", byte |-> 0]
    ELSE [ok |-> TRUE, err |-> "", byte |-> src[offset + 1]]

\* src.gread_with::<u8>(&mut offset, ..): a byte, or BadOffset past the end
gread_u8(src, offset) ==
  IF offset >= Len(src)
    THEN [ok |-> FALSE, err |-> "BadOffset", byte |-> 0]
    ELSE [ok |-> TRUE, err |-> "", byte |-> src[offset + 1]]

\* the variant that lets the continuation bit into the value
accumulate_unmasked(W, value, byte, byte_position) ==
  Or(value, Shl(W, Bits(byte), byte_position))

\* the variant whose shift wraps the bits around the word
accumulate_rotating(W, value, byte, byte_position) ==
  Or(value, {(i + byte_position) % W : i \in And(Bits(byte), Bits(SEGMENT_BITS))})

\* value |= ((byte & SEGMENT_BITS) as iW) << byte_position
accumulate(W, value, byte, byte_position) ==
  Or(value, Shl(W, And(Bits(byte), Bits(SEGMENT_BITS)), byte_position))

\* the variant that allows one more group
too_big_late(W, byte_position) == byte_position >= W + 7

\* if byte_position >= 32 (64)
too_big(W, byte_position) == byte_position >= W

RECURSIVE read_loop(_, _, _, _, _)
read_loop(W, src, value, byte_position, offset) ==
  LET r == gread_u8(src, offset)
  IN IF ~r.ok
       THEN [ok |-> FALSE, err |-> r.err, value |-> {}, n |-> offset, len |-> 0]
       ELSE LET v == accumulate(W, value, r.byte, byte_position)
            IN IF And(Bits(r.byte), Bits(CONTINUE_BIT)) = {}
                 THEN [ok |-> TRUE, err |-> "", value |-> v, n |-> offset + 1,
                       len |-> 0]
                 ELSE IF too_big(W, byte_position + 7)
                        THEN [ok |-> FALSE, err |-> "TooBig", value |-> v,
                              n |-> offset + 1, len |-> Len(src)]
                        ELSE read_loop(W, src, v, byte_position + 7, offset + 1)

VarInt_try_from_ctx(src) == read_loop(32, src, {}, 0, 0)
VarLong_try_from_ctx(src) == read_loop(64, src, {}, 0, 0)

\* the variant that wants a spare byte after the one it stores
pwrite_with_spare(output, byte, offset) ==
  IF offset + 1 >= Len(output)
    THEN [ok |-> FALSE, err |-> "BadOffset", n |-> offset, buf |-> output]
    ELSE [ok |-> TRUE, err |-> "", n |-> 1,
          buf |-> [output EXCEPT ![offset + 1] = byte]]

\* output.pwrite_with(byte, offset, ..): one byte stored, or BadOffset
pwrite_with(output, byte, offset) ==
  IF offset >= Len(output)
    THEN [ok |-> FALSE, err |-> "BadOffset", n |-> offset, buf |-> output]
    ELSE [ok |-> TRUE, err |-> "", n |-> 1,
          buf |-> [output EXCEPT ![offset + 1] = byte]]

\* (value as u8 & SEGMENT_BITS) | CONTINUE_BIT
val_to_write(value) ==
  Val(Or(And(AsU8(value), Bits(SEGMENT_BITS)), Bits(CONTINUE_BIT)))

\* the variant that loops until the value is zero
more_groups_nonzero(W, value) == value # {}

\* while value & !(SEGMENT_BITS as uW) != 0
more_groups(W, value) == And(value, Not(W, Bits(SEGMENT_BITS))) # {}

RECURSIVE write_loop(_, _, _, _)
write_loop(W, value, output, offset) ==
  IF more_groups(W, value)
    THEN LET w == pwrite_with(output, val_to_write(value), offset)
         IN IF ~w.ok THEN w
            ELSE write_loop(W, Shr(value, 7), w.buf, offset + w.n)
    ELSE LET w == pwrite_with(output, Val(AsU8(value)), offset)
         IN IF ~w.ok THEN w
            ELSE [ok |-> TRUE, err |-> "", n |-> offset + w.n, buf |-> w.buf]

VarInt_try_into_ctx(value, output) == write_loop(32, value, output, 0)
VarLong_try_into_ctx(value, output) == write_loop(64, value, output, 0)

try_from_ctx(kind, src) ==
  IF kind = "VarInt" THEN VarInt_try_from_ctx(src) ELSE VarLong_try_from_ctx(src)

try_into_ctx(kind, value, output) ==
  IF kind = "VarInt" THEN VarInt_try_into_ctx(value, output)
  ELSE VarLong_try_into_ctx(value, output)

(***************************************************************************)
(* Inputs of the VarInt / VarLong codec.                                   *)
(***************************************************************************)
Kinds == {"VarInt", "VarLong"}

\* patterns around every power of two of the word: 2^k - 1, 2^k, 2^k + 1,
\* their complements, and the values of the unit tests
Values(W) ==
  {0 .. (k - 1) : k \in 0..W} \cup {{k} : k \in Word(W)}
    \cup {{0, k} : k \in Word(W)} \cup {k .. (W - 1) : k \in Word(W)}
    \cup {Word(W) \ {k} : k \in Word(W)}
    \cup {Bits(25565), Bits(2097151), Bits(255)}
    \cup (IF W = 64 THEN {I32AsU64(I32Bits(MinI32))} ELSE {})

\* vec![0; c]
Zeros(c) == [i \in 1..c |-> 0]

ContBytes == {128, 255, 170}
TermBytes == {0, 1, 8, 15, 16, 127}
Trails == {<<>>, <<128>>, <<1, 255>>}

\* m bytes with the continuation bit set, a last byte or none, and whatever
\* follows in the buffer
RawSources ==
  {[i \in 1..m |-> IF i % 2 = 1 THEN c1 ELSE c2] \o t \o tr :
     m \in 0..MaxCont, c1 \in ContBytes, c2 \in ContBytes,
     t \in {<<>>} \cup {<<b>> : b \in TermBytes}, tr \in Trails}

(***************************************************************************)
(* Inputs of the Position codec.                                           *)
(***************************************************************************)
Near(C) == {c + d : c \in C, d \in (-Delta)..Delta} \cup {MinI32, MaxI32}

XSamples == Near({0, 2^25, -(2^25), 2^26, -1560, 111560})
YSamples == Near({0, 2^11, -(2^11), 2^12, 333, -333})
ZSamples == Near({0, 2^19, 2^20, 2^25, -(2^25), 2^26, -9696, 47})

Positions == {Position(x, y, z) : x \in XSamples, y \in YSamples, z \in ZSamples}

\* any u64: three arbitrary fields of 26, 26 and 12 bits
RawWords == {Shl(64, And(I32Bits(x), Word(26)), 38)
               \cup Shl(64, And(I32Bits(z), Word(26)), 12)
               \cup And(I32Bits(y), Word(12)) :
             x \in ZSamples, y \in YSamples, z \in ZSamples}

ZeroPos == Position(0, 0, 0)

PosIdle == /\ pPc' = "idle"
           /\ pPos' = ZeroPos
           /\ pWord' = {}
           /\ pDec' = ZeroPos
           /\ pWord2' = {}

VarIdle == /\ vPc' = "idle"
           /\ vKind' = "VarInt"
           /\ vVal' = {}
           /\ vCap' = 0
           /\ vEnc' = [ok |-> FALSE, err |-> "", n |-> 0, buf |-> <<>>]
           /\ vSrc' = <<>>
           /\ vDec' = [ok |-> FALSE, err |-> "", value |-> {}, n |-> 0, len |-> 0]
           /\ vEnc2' = [ok |-> FALSE, err |-> "", n |-> 0, buf |-> <<>>]

Init == /\ pPc = "idle"
        /\ pPos = ZeroPos
        /\ pWord = {}
        /\ pDec = ZeroPos
        /\ pWord2 = {}
        /\ vPc = "idle"
        /\ vKind = "VarInt"
        /\ vVal = {}
        /\ vCap = 0
        /\ vEnc = [ok |-> FALSE, err |-> "", n |-> 0, buf |-> <<>>]
        /\ vSrc = <<>>
        /\ vDec = [ok |-> FALSE, err |-> "", value |-> {}, n |-> 0, len |-> 0]
        /\ vEnc2 = [ok |-> FALSE, err |-> "", n |-> 0, buf |-> <<>>]

\* a caller builds a Position
PosNew == /\ pPc = "idle" /\ vPc = "idle"
          /\ \E p \in Positions : pPos' = p
          /\ pPc' = "new"
          /\ UNCHANGED <<pWord, pDec, pWord2>>
          /\ UNCHANGED varVars

\* position.to_u64()
PosToU64 == /\ pPc = "new"
            /\ pWord' = to_u64(pPos)
            /\ pPc' = "encoded"
            /\ UNCHANGED <<pPos, pDec, pWord2>>
            /\ UNCHANGED varVars

\* a caller holds a u64 read from the wire
PosRaw == /\ pPc = "idle" /\ vPc = "idle"
          /\ \E w \in RawWords : pWord' = w
          /\ pPc' = "raw"
          /\ UNCHANGED <<pPos, pDec, pWord2>>
          /\ UNCHANGED varVars

\* Position::from_u64(ulong)
PosFromU64 == /\ pPc \in {"encoded", "raw"}
              /\ pDec' = from_u64(pWord)
              /\ pPc' = IF pPc = "encoded" THEN "decoded" ELSE "rawdecoded"
              /\ UNCHANGED <<pPos, pWord, pWord2>>
              /\ UNCHANGED varVars

\* the decoded Position is packed again
PosReencode == /\ pPc = "decoded"
               /\ pWord2' = to_u64(pDec)
               /\ pPc' = "reencoded"
               /\ UNCHANGED <<pPos, pWord, pDec>>
               /\ UNCHANGED varVars

\* the values of a finished call are dropped
Reset == /\ pPc # "idle" \/ vPc # "idle"
         /\ PosIdle
         /\ VarIdle

\* a caller builds a VarInt / VarLong and an output buffer of c bytes
VarNew == /\ pPc = "idle" /\ vPc = "idle"
          /\ \E kind \in Kinds : \E v \in Values(Width(kind)) : \E c \in 0..MaxCap :
               /\ vKind' = kind
               /\ vVal' = v
               /\ vCap' = c
          /\ vPc' = "new"
          /\ UNCHANGED <<vEnc, vSrc, vDec, vEnc2>>
          /\ UNCHANGED posVars

\* bytes.pwrite(VarInt(v), 0) on vec![0; c]
VarWrite == /\ vPc = "new"
            /\ vEnc' = try_into_ctx(vKind, vVal, Zeros(vCap))
            /\ vPc' = "encoded"
            /\ UNCHANGED <<vKind, vVal, vCap, vSrc, vDec, vEnc2>>
            /\ UNCHANGED posVars

\* the buffer just written is read back from offset 0
VarReadBack == /\ vPc = "encoded"
               /\ vEnc.ok
               /\ vSrc' = vEnc.buf
               /\ vDec' = try_from_ctx(vKind, vEnc.buf)
               /\ vPc' = "decoded"
               /\ UNCHANGED <<vKind, vVal, vCap, vEnc, vEnc2>>
               /\ UNCHANGED posVars

\* the value read back is written to a fresh buffer of the same size
VarRewrite == /\ vPc = "decoded"
              /\ vDec.ok
              /\ vEnc2' = try_into_ctx(vKind, vDec.value, Zeros(vCap))
              /\ vPc' = "reencoded"
              /\ UNCHANGED <<vKind, vVal, vCap, vEnc, vSrc, vDec>>
              /\ UNCHANGED posVars

\* bytes.pread::<VarInt>(0) on bytes from the wire
VarRead == /\ pPc = "idle" /\ vPc = "idle"
           /\ \E kind \in Kinds : \E src \in RawSources :
                /\ vKind' = kind
                /\ vSrc' = src
                /\ vDec' = try_from_ctx(kind, src)
           /\ vPc' = "read"
           /\ UNCHANGED <<vVal, vCap, vEnc, vEnc2>>
           /\ UNCHANGED posVars

Next == \/ Reset \/ PosNew \/ PosToU64 \/ PosRaw \/ PosFromU64 \/ PosReencode
        \/ VarNew \/ VarWrite \/ VarReadBack \/ VarRewrite \/ VarRead

Spec == Init /\ [][Next]_vars

(***************************************************************************)
(* Vocabulary of the properties.                                           *)
(***************************************************************************)
InRange(p) == /\ p.x >= -(2^25) /\ p.x < 2^25
              /\ p.z >= -(2^25) /\ p.z < 2^25
              /\ p.y >= -(2^11) /\ p.y < 2^11

\* the n-bit field of w that starts at bit lo, moved down to bit 0
FieldOf(w, lo, n) == {i - lo : i \in {j \in w : j >= lo /\ j < lo + n}}

\* two's-complement reading of an n-bit field, n <= 26
SignExtend(f, n) == IF Val(f) < 2^(n - 1) THEN Val(f) ELSE Val(f) - 2^n

\* x in bits 63..38, z in bits 37..12, y in bits 11..0
Layout(p) == {i + 38 : i \in And(I32Bits(p.x), Word(26))}
               \cup {i + 12 : i \in And(I32Bits(p.z), Word(26))}
               \cup And(I32Bits(p.y), Word(12))

\* longest encoding try_from_ctx accepts: 5 bytes, 10 bytes
Limit(kind) == IF kind = "VarInt" THEN 5 ELSE 10

Top(u) == CHOOSE i \in u : \A j \in u : j <= i

\* max(1, ceil(bitlength(u) / 7))
MinLen(u) == IF u = {} THEN 1 ELSE (Top(u) \div 7) + 1

\* byte i (from 0) of the minimal encoding of u
MinByte(u, i) == Val(FieldOf(u, 7 * i, 7))
                   + (IF i < MinLen(u) - 1 THEN 128 ELSE 0)

HasCont(b) == b >= 128

\* the first k bytes of src exist and all have the continuation bit set
FirstCont(src, k) == /\ Len(src) >= k
                     /\ \A i \in 1..k : HasCont(src[i])

\* payload bits of the last byte of a longest encoding that fit the word:
\* 0x0F for VarInt, 0x01 for VarLong
FitMask(kind) == IF kind = "VarInt" THEN 15 ELSE 1

\* src is a terminated encoding of the longest accepted length
FullLength(kind, src) == /\ FirstCont(src, Limit(kind) - 1)
                         /\ Len(src) >= Limit(kind)
                         /\ ~HasCont(src[Limit(kind)])

\* src with the payload of its byte at Limit(kind) cut to the bits that fit
Fitted(kind, src) ==
  [src EXCEPT ![Limit(kind)] = Val(And(Bits(src[Limit(kind)]), Bits(FitMask(kind))))]

\* C1: a Position whose x and z lie in [-2^25, 2^25-1] and whose y lies in
\* [-2^11, 2^11-1] is returned unchanged by from_u64(to_u64(p))
PositionRoundTrip ==
  (pPc \in {"decoded", "reencoded"} /\ InRange(pPos)) => pDec = pPos

\* C2: a VarInt / VarLong written to a buffer that is large enough and read
\* back from offset 0 yields the value written and the number of bytes the
\* write reported
VarRoundTrip ==
  vPc \in {"decoded", "reencoded"} =>
    /\ vDec.ok
    /\ vDec.value = vVal
    /\ vDec.n = vEnc.n

VarRoundTripWitness ==
  /\ vPc = "decoded"
  /\ vKind = "VarLong"
  /\ 63 \in vVal
  /\ vCap > vEnc.n
  /\ vDec.ok
  /\ vDec.n = 10

\* C3: an input whose first 5 (VarInt) or 10 (VarLong) bytes all have the
\* continuation bit set is refused with TooBig, and a successful read
\* consumes at most 5 (10) bytes
DecodeTooBig ==
  vPc \in {"read", "decoded", "reencoded"} =>
    /\ FirstCont(vSrc, Limit(vKind)) => (~vDec.ok /\ vDec.err = "TooBig")
    /\ vDec.ok => vDec.n <= Limit(vKind)

DecodeTooBigWitness ==
  /\ vPc = "read"
  /\ vKind = "VarLong"
  /\ FirstCont(vSrc, 10)
  /\ Len(vSrc) > 10
  /\ ~HasCont(vSrc[11])
  /\ vDec.err = "TooBig"

\* C4: a successful write stores the minimal encoding of the unsigned
\* reading u of the value: max(1, ceil(bitlength(u)/7)) bytes, each but the
\* last carrying seven bits of u and the continuation bit, the last the top
\* bits of u; 1..5 bytes for VarInt and 1..10 for VarLong, 5 and 10 for the
\* negative values, a last byte of zero only for the value 0
EncodeMinimal ==
  (vPc = "encoded" /\ vEnc.ok) =>
    /\ vEnc.n = MinLen(vVal)
    /\ \A i \in 0..(vEnc.n - 1) : vEnc.buf[i + 1] = MinByte(vVal, i)
    /\ vEnc.n >= 1 /\ vEnc.n <= Limit(vKind)
    /\ ~HasCont(vEnc.buf[vEnc.n])
    /\ (vEnc.buf[vEnc.n] = 0) => (vVal = {})
    /\ (Width(vKind) - 1) \in vVal => vEnc.n = Limit(vKind)
    /\ (vKind = "VarInt" /\ vVal = I32Bits(-1)) =>
         SubSeq(vEnc.buf, 1, 5) = <<255, 255, 255, 255, 15>>
    /\ (vKind = "VarLong" /\ vVal = {63}) =>
         SubSeq(vEnc.buf, 1, 10) = <<128, 128, 128, 128, 128, 128, 128, 128, 128, 1>>

EncodeMinimalWitness ==
  /\ vPc = "encoded"
  /\ vEnc.ok
  /\ vKind = "VarLong"
  /\ vVal = {63}
  /\ vEnc.n = 10

\* C5: to_u64 puts x mod 2^26 in bits 63..38, z mod 2^26 in bits 37..12 and
\* y mod 2^12 in bits 11..0, for any i32 fields
ToU64Layout ==
  pPc \in {"encoded", "decoded", "reencoded"} => pWord = Layout(pPos)

\* C6: from_u64 returns, for any u64, the fields val[63..38], val[37..12]
\* and val[11..0] read as two's complement, so x and z lie in
\* [-2^25, 2^25-1] and y in [-2^11, 2^11-1]
FromU64SignExtends ==
  pPc \in {"decoded", "rawdecoded", "reencoded"} =>
    /\ pDec.x = SignExtend(FieldOf(pWord, 38, 26), 26)
    /\ pDec.z = SignExtend(FieldOf(pWord, 12, 26), 26)
    /\ pDec.y = SignExtend(FieldOf(pWord, 0, 12), 12)
    /\ And(I32Bits(pDec.x), Word(26)) = FieldOf(pWord, 38, 26)
    /\ And(I32Bits(pDec.z), Word(26)) = FieldOf(pWord, 12, 26)
    /\ And(I32Bits(pDec.y), Word(12)) = FieldOf(pWord, 0, 12)
    /\ InRange(pDec)

FromU64SignExtendsWitness ==
  /\ pPc = "rawdecoded"
  /\ pDec.x < 0
  /\ pDec.z >= 2^24
  /\ pDec.y = -1

\* C7: writing the value that was read back gives the bytes of the first
\* write, and packing the Position that was unpacked gives the u64 of the
\* first packing, for any i32 fields
ReencodeStable ==
  /\ vPc = "reencoded" => vEnc2 = vEnc
  /\ pPc = "reencoded" => pWord2 = pWord

ReencodeStableWitness ==
  /\ vPc = "reencoded"
  /\ vKind = "VarInt"
  /\ 31 \in vVal
  /\ vEnc2.ok
  /\ vEnc2.n = 5

\* C8: an input that ends before a byte without the continuation bit, after
\* fewer than 5 (10) bytes, is refused with the reader's BadOffset error
DecodeUnderrun ==
  (vPc = "read" /\ Len(vSrc) < Limit(vKind) /\ FirstCont(vSrc, Len(vSrc))) =>
    (~vDec.ok /\ vDec.err = "BadOffset")

DecodeUnderrunWitness ==
  /\ vPc = "read"
  /\ vKind = "VarLong"
  /\ Len(vSrc) = 9
  /\ FirstCont(vSrc, 9)
  /\ vDec.err = "BadOffset"

\* C9: a write into a buffer of c bytes succeeds, reporting the encoded
\* length n, exactly when c >= n; otherwise it fails with the writer's
\* error
EncodeCapacity ==
  vPc = "encoded" =>
    /\ vEnc.ok <=> (vCap >= MinLen(vVal))
    /\ vEnc.ok => vEnc.n = MinLen(vVal)
    /\ ~vEnc.ok => vEnc.err = "BadOffset"

EncodeCapacityWitness ==
  /\ vPc = "encoded"
  /\ vEnc.ok
  /\ vCap = vEnc.n
  /\ vEnc.n = 3

\* C10: a terminated input of 5 (10) bytes is read successfully whatever
\* the payload of its last byte: the bits beyond bit 31 (63) are dropped, so
\* it reads as the input whose last byte keeps only the bits that fit
DecodeOverwide ==
  (vPc = "read" /\ FullLength(vKind, vSrc)) =>
    /\ vDec.ok
    /\ vDec.n = Limit(vKind)
    /\ vDec = try_from_ctx(vKind, Fitted(vKind, vSrc))
    /\ vDec.value =
         UNION {{7 * (i - 1) + b : b \in And(Bits(vSrc[i]), Bits(SEGMENT_BITS))}
                  : i \in 1..Limit(vKind)} \cap Word(Width(vKind))

DecodeOverwideWitness ==
  /\ vPc = "read"
  /\ vKind = "VarInt"
  /\ FullLength(vKind, vSrc)
  /\ vSrc[5] = 127
  /\ vSrc[1] = 128
  /\ vDec.ok

====
